---- MODULE Spec2Model ----
(***************************************************************************)
(* Boulder navigation and ticklist consistency of RocoLib                  *)
(* (src/db/mongodb_controller.py).                                         *)
(*                                                                         *)
(* The specifications share the document store:                            *)
(*   SpecNav  - collection traversal (get_next_boulder,                    *)
(*              get_previous_boulder) over a gym's boulder collection;     *)
(*   SpecNavTwice - the same, a call being made again with the arguments   *)
(*              it had;                                                    *)
(*   SpecTick - the ticklist mutator (put_boulder_in_ticklist,             *)
(*              delete_boulder_in_ticklist) run by concurrent request      *)
(*              handlers, each a find_one followed by an update_one;       *)
(*   SpecFilter - the declarative filter (get_boulders_filtered);            *)
(*   SpecList - traversal of a user's list across gyms                     *)
(*              (get_next_boulder_from_user_list,                          *)
(*              get_previous_boulder_from_user_list);                      *)
(*   SpecNorm - the postprocess_boulder_data wrapper applied to a value    *)
(*              once and again.                                            *)
(*                                                                         *)
(* A difficulty is held in tenths (the code 3 is 30, 2.6 is 26), so that   *)
(* the bounds int(value) +- 0.5 of a ranged condition are integers.        *)
(***************************************************************************)
EXTENDS Integers, Sequences, FiniteSets, TLC

\* ------------------------------------------------------------------ bounds
NumBoulders == 3
MaxDay == 2
MaxCalls == 2
NumIdens == 2

\* ------------------------------------------------------------ value spaces
BoulderIds == 1..NumBoulders
Sections == {1, 2}
Procs == {1, 2}
UserIds == {"u1", "u2"}
EmailValues == {"a", "b"}

\* find_one returns None when no document matches
None == [absent |-> TRUE]
\* the empty dict {} returned for "not found"
EmptyObj == [empty |-> TRUE]
\* an uncaught exception leaving the handler
Raised(e) == [error |-> e]

VARIABLES
    users,      \* database['users']: user id -> user document or None
    boulders,   \* database[f'{gym}_boulders']: _id -> stored boulder fields
    walls,      \* database[f'{gym}_walls']: section image -> latest flag
    today,      \* the calendar day datetime.today() yields
    served,     \* number of requests the handlers have taken so far
    pc,         \* position of each request handler
    call,       \* arguments of the call each handler runs
    user,       \* each handler's local `user` (the document find_one returned)
    ret,        \* value each handler returned
    nav_pc,     \* position of the traversal request
    nav_call,   \* arguments of the traversal call
    nav_list,   \* the traversal's local `boulders` list
    nav_ret     \* value the traversal returned

vars == <<users, boulders, walls, today, served, pc, call, user, ret,
          nav_pc, nav_call, nav_list, nav_ret>>
store_vars == <<users, boulders, walls>>
tick_vars == <<today, served, pc, call, user, ret>>
nav_vars == <<nav_pc, nav_call, nav_list, nav_ret>>

\* ------------------------------------------------------------- sequences
\* list(filter(test, s)) / [x for x in s if test(x)]
Filter(s, Test(_)) == SelectSeq(s, Test)

\* list.index(x): position of the first element equal to x, 0 when absent
\* (Python raises ValueError there)
IndexOf(s, x) ==
    IF \E i \in 1..Len(s) : s[i] = x
    THEN CHOOSE i \in 1..Len(s) : s[i] = x /\ \A j \in 1..(i-1) : s[j] # x
    ELSE 0

RECURSIVE Perms(_)
\* every ordering of the finite set S
Perms(S) ==
    IF S = {} THEN {<<>>}
    ELSE UNION {{<<x>> \o p : p \in Perms(S \ {x})} : x \in S}

\* --------------------------------------------------- the document store
\* a boulder document as find() yields it: the stored fields plus its _id
BoulderDoc(i) == [_id |-> i] @@ boulders[i]

\* a wall document of the gym
WallDoc(s) == [image |-> s, latest |-> walls[s]]

\* doc[field]
Field(doc, field) ==
    CASE field = "_id" -> doc._id
      [] field = "difficulty" -> doc.difficulty
      [] field = "section" -> doc.section
      [] field = "rating" -> doc.rating
      [] field = "repetitions" -> doc.repetitions
      [] field = "time" -> doc.time
      [] field = "name" -> doc.name
      [] field = "image" -> doc.image
      [] field = "latest" -> doc.latest

\* QueryBuilder(): a conjunction of constraints, empty at construction
EmptyQuery == {}
\* QueryBuilder.equal(field, value)
equal(query, field, value) ==
    query \cup {[field |-> field, op |-> "$eq", arg |-> {value}]}
\* QueryBuilder.contained_in(field, values)
contained_in(query, field, values) ==
    query \cup {[field |-> field, op |-> "$in", arg |-> values]}

\* QueryBuilder.contains_text(field, value)
contains_text(query, field, value) ==
    query \cup {[field |-> field, op |-> "$regex", arg |-> {value}]}
\* QueryBuilder.lower(field, value), QueryBuilder.greater(field, value):
\* bounds on the same field compose into an interval
lower(query, field, value) ==
    query \cup {[field |-> field, op |-> "$lt", arg |-> {value}]}
greater(query, field, value) ==
    query \cup {[field |-> field, op |-> "$gt", arg |-> {value}]}

\* the text holds the value as a substring
HasSubstring(text, value) ==
    \E i \in 1..(Len(text) - Len(value) + 1) :
        SubSeq(text, i, i + Len(value) - 1) = value

\* does the document satisfy every constraint of the query
Matches(doc, query) ==
    \A c \in query :
        CASE c.op = "$eq" -> Field(doc, c.field) \in c.arg
          [] c.op = "$in" -> Field(doc, c.field) \in c.arg
          [] c.op = "$regex" -> \A v \in c.arg : HasSubstring(Field(doc, c.field), v)
          [] c.op = "$lt" -> \A v \in c.arg : Field(doc, c.field) < v
          [] c.op = "$gt" -> \A v \in c.arg : Field(doc, c.field) > v

\* collection.find(query) on the gym's boulders and walls
find_boulders(query) ==
    {d \in {BoulderDoc(i) : i \in DOMAIN boulders} : Matches(d, query)}
find_walls(query) ==
    {w \in {WallDoc(s) : s \in DOMAIN walls} : Matches(w, query)}

RECURSIVE KeyCmp(_, _, _)
\* comparison of two documents under a sort specification, a list of
\* <<field, direction>> pairs: negative when a sorts before b, 0 on a tie
KeyCmp(a, b, keys) ==
    IF keys = <<>> THEN 0
    ELSE LET k == Head(keys)
             fa == Field(a, k[1])
             fb == Field(b, k[1])
         IN  IF fa = fb THEN KeyCmp(a, b, Tail(keys))
             ELSE IF fa < fb THEN -k[2] ELSE k[2]

\* cursor.sort(keys): the store may return documents that tie on every
\* key in any relative order
SortResults(docs, keys) ==
    {s \in Perms(docs) : \A i \in 1..(Len(s) - 1) : KeyCmp(s[i], s[i+1], keys) <= 0}

\* get_gym_walls(gym, database, latest)
get_gym_walls(latest) ==
    find_walls(IF latest THEN equal(EmptyQuery, "latest", TRUE) ELSE EmptyQuery)

\* get_user_problem_list_by_id(user_id, 'ticklist', database)
get_user_problem_list_by_id(user_id) ==
    IF user_id \in DOMAIN users /\ users[user_id] # None
    THEN users[user_id].ticklist
    ELSE <<>>

\* FIELDS_TO_MAP['difficulty']: internal code -> external vocabulary
FIELDS_TO_MAP ==
    [c \in {0, 10, 20, 30} |-> <<"green", "blue", "yellow", "red">>[(c \div 10) + 1]]

\* the postprocess_boulder_data wrapper applied to a single returned object;
\* a difficulty that is no key of the map raises KeyError
postprocess_boulder_data(boulder_data) ==
    IF boulder_data = EmptyObj \/ "error" \in DOMAIN boulder_data
    THEN boulder_data
    ELSE IF boulder_data.difficulty \notin DOMAIN FIELDS_TO_MAP
    THEN Raised("KeyError")
    ELSE [boulder_data EXCEPT !.difficulty = FIELDS_TO_MAP[@]]

\* the wrapper applied to a dict {ITEMS: [...]}; the items are held as a
\* set, the order in which find() yields them is left open
postprocess_items(items) ==
    IF \E b \in items : postprocess_boulder_data(b) = Raised("KeyError")
    THEN Raised("KeyError")
    ELSE [Items |-> {postprocess_boulder_data(b) : b \in items}]

\* ------------------------------------------------- collection traversal
SORTING_FIELD_MAP ==
    [creation_date |-> "_id", difficulty |-> "difficulty", section |-> "section",
     rating |-> "rating", repetitions |-> "repetitions"]

\* variant of the sort specification: the time follows the direction
TimeFollowsDirection(sort_by, is_ascending) ==
    <<<<SORTING_FIELD_MAP[sort_by], IF is_ascending THEN 1 ELSE -1>>,
      <<"time", IF is_ascending THEN 1 ELSE -1>>>>
\* the sort specification both traversals hand to the store
sort_spec(sort_by, is_ascending) ==
    <<<<SORTING_FIELD_MAP[sort_by], IF is_ascending THEN 1 ELSE -1>>,
      <<"time", -1>>>>

\* variant of the query: with no wall marked latest the section constraint
\* is left out
SkipsEmptyWallSet(latest_wall_set) ==
    IF latest_wall_set /\ get_gym_walls(latest_wall_set) # {}
    THEN contained_in(EmptyQuery, "section",
                      {w.image : w \in get_gym_walls(latest_wall_set)})
    ELSE EmptyQuery
\* the query both traversals build
scope_query(latest_wall_set) ==
    IF latest_wall_set
    THEN contained_in(EmptyQuery, "section",
                      {w.image : w \in get_gym_walls(latest_wall_set)})
    ELSE EmptyQuery

\* variant of the filter: the done boulders stay in the list
KeepsDone(boulders_l, user_id, to_show) == boulders_l
\* if show only to do, remove problems present as done in user ticklist
remove_done(boulders_l, user_id, to_show) ==
    IF to_show = "to_do" /\ user_id # ""
    THEN LET tl == get_user_problem_list_by_id(user_id)
             done_boulders == {tl[i].iden : i \in {j \in 1..Len(tl) : tl[j].is_done}}
         IN  Filter(boulders_l, LAMBDA b : b._id \notin done_boulders)
    ELSE boulders_l

\* identities of a list of documents
Ids(boulders_l) == [i \in 1..Len(boulders_l) |-> boulders_l[i]._id]

\* variant of the selection: past the last element it wraps to the first
NextWraps(boulders_l, boulder_id) ==
    IF boulders_l = <<>> THEN EmptyObj
    ELSE LET idx == IndexOf(Ids(boulders_l), boulder_id)
         IN  IF idx = 0 THEN Raised("ValueError")
             ELSE boulders_l[(idx % Len(boulders_l)) + 1]
\* the selection that ends get_next_boulder
next_boulder_of(boulders_l, boulder_id) ==
    IF boulders_l = <<>> THEN EmptyObj
    ELSE LET idx == IndexOf(Ids(boulders_l), boulder_id)
         IN  IF idx = 0 THEN Raised("ValueError")
             ELSE IF idx < Len(boulders_l) THEN boulders_l[idx + 1]
             ELSE boulders_l[idx]

\* variant of the selection: an identity that is not in the list gives the
\* empty object
PreviousCatchesNotFound(boulders_l, boulder_id) ==
    IF boulders_l = <<>> THEN EmptyObj
    ELSE LET idx == IndexOf(Ids(boulders_l), boulder_id)
         IN  IF idx = 0 THEN EmptyObj
             ELSE IF idx > 1 THEN boulders_l[idx - 1]
             ELSE boulders_l[idx]
\* the selection that ends get_previous_boulder
previous_boulder_of(boulders_l, boulder_id) ==
    IF boulders_l = <<>> THEN EmptyObj
    ELSE LET idx == IndexOf(Ids(boulders_l), boulder_id)
         IN  IF idx = 0 THEN Raised("ValueError")
             ELSE IF idx > 1 THEN boulders_l[idx - 1]
             ELSE boulders_l[idx]

SortKeys == {"creation_date", "difficulty", "section", "rating", "repetitions"}
\* <<to_show, user_id>> pairs a request can carry
ShowModes == {<<"to_do", "u1">>, <<"to_do", "">>, <<"all", "u1">>}

NavCalls ==
    [fn : {"get_next_boulder", "get_previous_boulder"},
     boulder_id : BoulderIds, latest_wall_set : BOOLEAN, sort_by : SortKeys,
     is_ascending : BOOLEAN, show : ShowModes]
NoCall == [fn |-> "none"]

\* get_next_boulder / get_previous_boulder, one whole call
Traverse(c) ==
    /\ nav_pc = "idle"
    /\ \E sorted \in SortResults(find_boulders(scope_query(c.latest_wall_set)),
                                 sort_spec(c.sort_by, c.is_ascending)) :
           LET boulders_l == remove_done(sorted, c.show[2], c.show[1])
           IN  /\ nav_list' = boulders_l
               /\ nav_ret' = postprocess_boulder_data(
                      IF c.fn = "get_next_boulder"
                      THEN next_boulder_of(boulders_l, c.boulder_id)
                      ELSE previous_boulder_of(boulders_l, c.boulder_id))
    /\ nav_call' = c
    /\ nav_pc' = "returned"
    /\ UNCHANGED <<store_vars, tick_vars>>

get_next_boulder ==
    \E c \in NavCalls : c.fn = "get_next_boulder" /\ Traverse(c)
get_previous_boulder ==
    \E c \in NavCalls : c.fn = "get_previous_boulder" /\ Traverse(c)

\* the response is sent; the next request may arrive
NavRespond ==
    /\ nav_pc = "returned"
    /\ nav_pc' = "idle"
    /\ nav_call' = NoCall
    /\ nav_list' = <<>>
    /\ nav_ret' = EmptyObj
    /\ UNCHANGED <<store_vars, tick_vars>>

\* ------------------------------------------------------ ticklist entries
\* the three shapes of an entry's date_climbed: no such key, a single
\* date string (oldest format), a list of date strings
NoDate == [kind |-> "absent", dates |-> <<>>]
DateStr(d) == [kind |-> "str", dates |-> <<d>>]
DateList(l) == [kind |-> "list", dates |-> l]

Entry(iden, is_done, date_climbed) ==
    [iden |-> iden, is_done |-> is_done, date_climbed |-> date_climbed]

UserDoc(ticklist, email) == [ticklist |-> ticklist, email |-> email]

\* handlers at rest
TickIdle ==
    /\ today = 1
    /\ served = 0
    /\ pc = [p \in Procs |-> "idle"]
    /\ call = [p \in Procs |-> NoCall]
    /\ user = [p \in Procs |-> None]
    /\ ret = [p \in Procs |-> EmptyObj]
NavIdle ==
    /\ nav_pc = "idle"
    /\ nav_call = NoCall
    /\ nav_list = <<>>
    /\ nav_ret = EmptyObj

\* ------------------------------------------- SpecNav: collection traversal
\* stored boulder fields the traversal is run over: boulders tie on the
\* sort field alone, on the time alone, or (same data twice) on both
NavBoulderData ==
    {[difficulty |-> 10 * dt[1], time |-> dt[2], section |-> 1 + ((dt[1] + dt[2]) % 2),
      rating |-> 1 - dt[1], repetitions |-> 0] : dt \in {<<0, 0>>, <<0, 1>>, <<1, 0>>}}

\* ticklists of the requesting user: empty, or boulder 1 to do and boulder 2 done
NavTicklists ==
    {<<>>, <<Entry(1, FALSE, NoDate), Entry(2, TRUE, DateList(<<1>>))>>}

\* active wall sets: none, section 1 alone, both sections
NavWalls == {w \in [Sections -> BOOLEAN] : w[2] => w[1]}

InitNav ==
    /\ boulders \in [BoulderIds -> NavBoulderData]
    /\ walls \in NavWalls
    /\ \E tl \in NavTicklists :
           users = [u \in UserIds |-> IF u = "u1" THEN UserDoc(tl, "a") ELSE None]
    /\ TickIdle
    /\ NavIdle

NextNav ==
    \/ get_next_boulder
    \/ get_previous_boulder
    \/ NavRespond

SpecNav == InitNav /\ [][NextNav]_vars

\* the traversal that returned is called again with the same arguments,
\* over the store as it is
RepeatTraversal ==
    /\ nav_pc = "returned"
    /\ \E sorted \in SortResults(find_boulders(scope_query(nav_call.latest_wall_set)),
                                 sort_spec(nav_call.sort_by, nav_call.is_ascending)) :
           LET boulders_l == remove_done(sorted, nav_call.show[2], nav_call.show[1])
           IN  /\ nav_list' = boulders_l
               /\ nav_ret' = postprocess_boulder_data(
                      IF nav_call.fn = "get_next_boulder"
                      THEN next_boulder_of(boulders_l, nav_call.boulder_id)
                      ELSE previous_boulder_of(boulders_l, nav_call.boulder_id))
    /\ UNCHANGED <<nav_call, nav_pc, store_vars, tick_vars>>

NextNavTwice ==
    \/ get_next_boulder
    \/ get_previous_boulder
    \/ RepeatTraversal
    \/ NavRespond

SpecNavTwice == InitNav /\ [][NextNavTwice]_vars

\* the traversal returned a boulder other than the one asked from, and the
\* opposite traversal is called from that boulder with the same sort key,
\* direction, wall scope and to-show arguments, over the store as it is
InverseTraversal ==
    /\ nav_pc = "returned"
    /\ "_id" \in DOMAIN nav_ret
    /\ nav_ret._id # nav_call.boulder_id
    /\ \E sorted \in SortResults(find_boulders(scope_query(nav_call.latest_wall_set)),
                                 sort_spec(nav_call.sort_by, nav_call.is_ascending)) :
           LET boulders_l == remove_done(sorted, nav_call.show[2], nav_call.show[1])
           IN  /\ nav_list' = boulders_l
               /\ nav_ret' = postprocess_boulder_data(
                      IF nav_call.fn = "get_next_boulder"
                      THEN previous_boulder_of(boulders_l, nav_ret._id)
                      ELSE next_boulder_of(boulders_l, nav_ret._id))
    /\ nav_pc' = "inverted"
    /\ UNCHANGED <<nav_call, store_vars, tick_vars>>

NextNavInverse ==
    \/ get_next_boulder
    \/ get_previous_boulder
    \/ InverseTraversal
    \/ NavRespond

SpecNavInverse == InitNav /\ [][NextNavInverse]_vars

\* ---------------------------------------------- SpecTick: ticklist mutator
TickIdens == 1..NumIdens

\* boulder_data a request carries: identity and completion flag
BoulderDatas == {Entry(i, d, NoDate) : i \in TickIdens, d \in BOOLEAN}

\* calls for the stored user carry any boulder_data; for the user that
\* does not exist one call of each kind is enough
PutCalls ==
    [fn : {"put_boulder_in_ticklist"}, boulder_data : BoulderDatas,
     user_id : {"u1"}, mark_as_done_clicked : BOOLEAN]
    \cup [fn : {"put_boulder_in_ticklist"}, boulder_data : {Entry(1, TRUE, NoDate)},
          user_id : {"u2"}, mark_as_done_clicked : {TRUE}]
DeleteCalls ==
    [fn : {"delete_boulder_in_ticklist"},
     boulder_data : {Entry(i, FALSE, NoDate) : i \in TickIdens},
     user_id : {"u1"}]
    \cup [fn : {"delete_boulder_in_ticklist"}, boulder_data : {Entry(1, FALSE, NoDate)},
          user_id : {"u2"}]

\* find_one(QueryBuilder().equal('id', user_id).query) on the users collection
find_one_user(user_id) == users[user_id]

\* update_one({'id': user_id}, {'$set': doc}): every key of doc is written
\* onto the stored document, the other stored keys are kept
update_one_set(user_id, doc) ==
    IF users[user_id] = None THEN users
    ELSE [users EXCEPT ![user_id] =
             [k \in DOMAIN users[user_id] |->
                 IF k \in DOMAIN doc THEN doc[k] ELSE users[user_id][k]]]

\* variant of update_user_ticklist: the write is dropped when the stored
\* ticklist is no longer the one that was read
TicklistIfUnchanged(ticklist, user_l, user_id) ==
    IF users[user_id] # None /\ users[user_id].ticklist = user_l.ticklist
    THEN update_one_set(user_id, [user_l EXCEPT !.ticklist = ticklist])
    ELSE users
\* update_user_ticklist(database, ticklist, user, user_id)
update_user_ticklist(ticklist, user_l, user_id) ==
    update_one_set(user_id, [user_l EXCEPT !.ticklist = ticklist])

\* find_boulder_index(boulder_data, boulders): 0-based index, -1 when absent
find_boulder_index(boulder_data, ticklist) ==
    IndexOf([i \in 1..Len(ticklist) |-> ticklist[i].iden], boulder_data.iden) - 1

\* variants of set_climbed_date: the old string is dropped instead of kept;
\* a date already recorded is not recorded again
DropsOldString(ticklist, index, climbed_date) ==
    LET old == ticklist[index + 1].date_climbed
        new == IF old.kind = "list" THEN DateList(old.dates \o <<climbed_date>>)
               ELSE DateList(<<climbed_date>>)
    IN  [ticklist EXCEPT ![index + 1].date_climbed = new]
SkipsRepeatedDate(ticklist, index, climbed_date) ==
    LET old == ticklist[index + 1].date_climbed
        new == IF \E k \in 1..Len(old.dates) : old.dates[k] = climbed_date
               THEN DateList(old.dates)
               ELSE DateList(old.dates \o <<climbed_date>>)
    IN  [ticklist EXCEPT ![index + 1].date_climbed = new]

\* variant of set_climbed_date: the new date is put in front of the history
PrependsDate(ticklist, index, climbed_date) ==
    LET old == ticklist[index + 1].date_climbed
    IN  [ticklist EXCEPT ![index + 1].date_climbed =
             DateList(<<climbed_date>> \o old.dates)]

\* set_climbed_date(ticklist, index, climbed_date); index is 0-based and
\* climbed_date is the date already formatted by strftime('%Y-%m-%d')
set_climbed_date(ticklist, index, climbed_date) ==
    LET old == ticklist[index + 1].date_climbed
        new == IF old.kind = "str" THEN DateList(<<old.dates[1], climbed_date>>)
               ELSE IF old.kind = "list" THEN DateList(old.dates \o <<climbed_date>>)
               ELSE DateList(<<climbed_date>>)
    IN  [ticklist EXCEPT ![index + 1].date_climbed = new]

\* variants of put_in_ticklist: the entry is appended without looking for
\* it; a present entry is marked without the click; an absent entry is
\* stamped without the click
AppendsWithoutLookup(user_l, boulder_data, mark_as_done_clicked, date) ==
    [ticklist |->
         Append(user_l.ticklist,
                IF boulder_data.is_done /\ mark_as_done_clicked
                THEN [boulder_data EXCEPT !.date_climbed = DateList(<<date>>)]
                ELSE boulder_data),
     write |-> TRUE]
MarksWithoutClick(user_l, boulder_data, mark_as_done_clicked, date) ==
    LET ticklist == user_l.ticklist
        boulder == Filter(ticklist, LAMBDA x : x.iden = boulder_data.iden)
    IN  IF boulder = <<>>
        THEN [ticklist |->
                  Append(ticklist,
                         IF boulder_data.is_done /\ mark_as_done_clicked
                         THEN [boulder_data EXCEPT !.date_climbed = DateList(<<date>>)]
                         ELSE boulder_data),
              write |-> TRUE]
        ELSE IF boulder_data.is_done
        THEN LET index == find_boulder_index(boulder_data, ticklist)
                 marked == [ticklist EXCEPT ![index + 1].is_done = boulder_data.is_done]
             IN  [ticklist |-> set_climbed_date(marked, index, date), write |-> TRUE]
        ELSE [ticklist |-> ticklist, write |-> FALSE]
StampsWithoutClick(user_l, boulder_data, mark_as_done_clicked, date) ==
    LET ticklist == user_l.ticklist
        boulder == Filter(ticklist, LAMBDA x : x.iden = boulder_data.iden)
    IN  IF boulder = <<>>
        THEN [ticklist |->
                  Append(ticklist,
                         IF boulder_data.is_done
                         THEN [boulder_data EXCEPT !.date_climbed = DateList(<<date>>)]
                         ELSE boulder_data),
              write |-> TRUE]
        ELSE IF mark_as_done_clicked /\ boulder_data.is_done
        THEN LET index == find_boulder_index(boulder_data, ticklist)
                 marked == [ticklist EXCEPT ![index + 1].is_done = boulder_data.is_done]
             IN  [ticklist |-> set_climbed_date(marked, index, date), write |-> TRUE]
        ELSE [ticklist |-> ticklist, write |-> FALSE]

\* variant of put_in_ticklist: a click on a present entry assigns the
\* incoming completion flag, true or not
AssignsFlagOnClick(user_l, boulder_data, mark_as_done_clicked, date) ==
    LET ticklist == user_l.ticklist
        boulder == Filter(ticklist, LAMBDA x : x.iden = boulder_data.iden)
    IN  IF boulder = <<>>
        THEN [ticklist |->
                  Append(ticklist,
                         IF boulder_data.is_done /\ mark_as_done_clicked
                         THEN [boulder_data EXCEPT !.date_climbed = DateList(<<date>>)]
                         ELSE boulder_data),
              write |-> TRUE]
        ELSE IF mark_as_done_clicked
        THEN LET index == find_boulder_index(boulder_data, ticklist)
                 marked == [ticklist EXCEPT ![index + 1].is_done = boulder_data.is_done]
             IN  [ticklist |-> set_climbed_date(marked, index, date), write |-> TRUE]
        ELSE [ticklist |-> ticklist, write |-> FALSE]

\* the body of put_boulder_in_ticklist after find_one returned user_l:
\* the ticklist it returns and whether it calls update_user_ticklist
put_in_ticklist(user_l, boulder_data, mark_as_done_clicked, date) ==
    LET ticklist == user_l.ticklist
        boulder == Filter(ticklist, LAMBDA x : x.iden = boulder_data.iden)
    IN  IF boulder = <<>>
        THEN [ticklist |->
                  Append(ticklist,
                         IF boulder_data.is_done /\ mark_as_done_clicked
                         THEN [boulder_data EXCEPT !.date_climbed = DateList(<<date>>)]
                         ELSE boulder_data),
              write |-> TRUE]
        ELSE IF mark_as_done_clicked /\ boulder_data.is_done
        THEN LET index == find_boulder_index(boulder_data, ticklist)
                 marked == [ticklist EXCEPT ![index + 1].is_done = boulder_data.is_done]
             IN  [ticklist |-> set_climbed_date(marked, index, date), write |-> TRUE]
        ELSE [ticklist |-> ticklist, write |-> FALSE]

\* variant of the filter: whole entries are compared, not identities
ComparesWholeEntry(ticklist, boulder_data) ==
    Filter(ticklist, LAMBDA x : x # boulder_data)

\* the filter of delete_boulder_in_ticklist
remove_from_ticklist(ticklist, boulder_data) ==
    Filter(ticklist, LAMBDA x : x.iden # boulder_data.iden)

\* the value a handler returns: a list
ListResult(l) == [list |-> l]

\* a handler is free before its first request and after it has returned
Free(p) == pc[p] \in {"idle", "done"}

\* a request is handed to the first handler that is free, while the
\* request budget lasts
Takes(p) ==
    /\ Free(p)
    /\ \A q \in Procs : q < p => ~Free(q)
    /\ served < MaxCalls

\* put_boulder_in_ticklist, first step: the find_one
PutFind(p, c) ==
    /\ Takes(p)
    /\ served' = served + 1
    /\ user' = [user EXCEPT ![p] = find_one_user(c.user_id)]
    /\ call' = [call EXCEPT ![p] = c]
    /\ ret' = [ret EXCEPT ![p] = EmptyObj]
    /\ pc' = [pc EXCEPT ![p] = "put_found"]
    /\ UNCHANGED <<store_vars, today, nav_vars>>

\* put_boulder_in_ticklist, from user.get(TICKLIST, []) to the return
PutFinish(p) ==
    /\ pc[p] = "put_found"
    /\ IF user[p] = None
       THEN /\ ret' = [ret EXCEPT ![p] = Raised("AttributeError")]
            /\ users' = users
       ELSE LET r == put_in_ticklist(user[p], call[p].boulder_data,
                                     call[p].mark_as_done_clicked, today)
            IN  /\ ret' = [ret EXCEPT ![p] = ListResult(r.ticklist)]
                /\ users' = IF r.write
                            THEN update_user_ticklist(r.ticklist, user[p], call[p].user_id)
                            ELSE users
    /\ pc' = [pc EXCEPT ![p] = "done"]
    /\ UNCHANGED <<boulders, walls, today, served, call, user, nav_vars>>

\* delete_boulder_in_ticklist, first step: the find_one
DeleteFind(p, c) ==
    /\ Takes(p)
    /\ served' = served + 1
    /\ user' = [user EXCEPT ![p] = find_one_user(c.user_id)]
    /\ call' = [call EXCEPT ![p] = c]
    /\ ret' = [ret EXCEPT ![p] = EmptyObj]
    /\ pc' = [pc EXCEPT ![p] = "delete_found"]
    /\ UNCHANGED <<store_vars, today, nav_vars>>

\* variant of the delete's second step: the ticklist is read off the user
\* without the `if user:` test, as put_boulder_in_ticklist reads it
DeleteWithoutUserTest(p) ==
    /\ pc[p] = "delete_found"
    /\ IF user[p] = None
       THEN /\ ret' = [ret EXCEPT ![p] = Raised("AttributeError")]
            /\ users' = users
       ELSE LET filtered_list == remove_from_ticklist(user[p].ticklist, call[p].boulder_data)
            IN  /\ ret' = [ret EXCEPT ![p] = ListResult(filtered_list)]
                /\ users' = update_one_set(call[p].user_id,
                                           [user[p] EXCEPT !.ticklist = filtered_list])
    /\ pc' = [pc EXCEPT ![p] = "done"]
    /\ UNCHANGED <<boulders, walls, today, served, call, user, nav_vars>>
\* delete_boulder_in_ticklist, from `if user:` to the return
DeleteFinish(p) ==
    /\ pc[p] = "delete_found"
    /\ IF user[p] = None
       THEN /\ ret' = [ret EXCEPT ![p] = ListResult(<<>>)]
            /\ users' = users
       ELSE LET filtered_list == remove_from_ticklist(user[p].ticklist, call[p].boulder_data)
            IN  /\ ret' = [ret EXCEPT ![p] = ListResult(filtered_list)]
                /\ users' = update_one_set(call[p].user_id,
                                           [user[p] EXCEPT !.ticklist = filtered_list])
    /\ pc' = [pc EXCEPT ![p] = "done"]
    /\ UNCHANGED <<boulders, walls, today, served, call, user, nav_vars>>

\* save_user(user_data, database) for the stored user, user_data carrying
\* a new value of a field other than the ticklist
save_user(email) ==
    /\ served < MaxCalls
    /\ served' = served + 1
    /\ users["u1"].email # email
    /\ users' = update_one_set("u1", [email |-> email])
    /\ UNCHANGED <<boulders, walls, today, pc, call, user, ret, nav_vars>>

\* midnight passes
NextDay ==
    /\ today < MaxDay
    /\ today' = today + 1
    /\ UNCHANGED <<store_vars, served, pc, call, user, ret, nav_vars>>

\* stored ticklists at the start: entries of the oldest format (a single
\* date string), no identity twice
InitTicklists ==
    {[i \in 1..Len(s) |-> Entry(s[i], TRUE, DateStr(1))] :
        s \in UNION {Perms(I) : I \in SUBSET TickIdens}}

InitTick ==
    /\ \E tl \in InitTicklists :
           users = [u \in UserIds |-> IF u = "u1" THEN UserDoc(tl, "a") ELSE None]
    /\ boulders = [i \in BoulderIds |->
                      [difficulty |-> 0, time |-> 0, section |-> 1,
                       rating |-> 1, repetitions |-> 0]]
    /\ walls = [s \in Sections |-> FALSE]
    /\ TickIdle
    /\ NavIdle

NextTick ==
    \/ \E p \in Procs : \E c \in PutCalls : PutFind(p, c)
    \/ \E p \in Procs : PutFinish(p)
    \/ \E p \in Procs : \E c \in DeleteCalls : DeleteFind(p, c)
    \/ \E p \in Procs : DeleteFinish(p)
    \/ \E e \in EmailValues : save_user(e)
    \/ NextDay

SpecTick == InitTick /\ [][NextTick]_vars

\* ------------------------------------------- SpecFilter: declarative filter
\* int(value) of the decimal strings a request carries, in tenths
int(value) == 10 * (CHOOSE n \in 0..3 : <<"0", "1", "2", "3">>[n + 1] = value)

\* a key of the conditions dict: <<>> when the dict has no such key, <<v>>
\* when it maps the key to v
NoKey == <<>>
Key(v) == <<v>>

\* conditions.items(): the keys the dict holds
Items(conditions) == {k \in DOMAIN conditions : conditions[k] # NoKey}

RECURSIVE apply_conditions(_, _, _, _)
\* the loop over conditions.items(): each key goes to the first of equals,
\* contains, ranged that lists it
apply_conditions(query, c, conditions, keys) ==
    IF keys = {} THEN query
    ELSE LET key == CHOOSE k \in keys : TRUE
             value == conditions[key][1]
             q == IF key \in c.equals THEN equal(query, key, value)
                  ELSE IF key \in c.contains THEN contains_text(query, key, value)
                  ELSE IF key \in c.ranged
                  THEN greater(lower(query, key, int(value) + 5), key, int(value) - 5)
                  ELSE query
         IN  apply_conditions(q, c, conditions, keys \ {key})

\* the documents get_boulders_filtered returns under ITEMS
filtered_boulder_data(c) ==
    LET query_builder == IF c.latest_walls_only
                         THEN contained_in(EmptyQuery, "section",
                                           {w.image : w \in get_gym_walls(TRUE)})
                         ELSE EmptyQuery
    IN  IF Items(c.conditions) = {}
        THEN find_boulders(query_builder)
        ELSE LET found == find_boulders(apply_conditions(query_builder, c, c.conditions,
                                                         Items(c.conditions)))
             IN  IF found = {} THEN find_boulders(EmptyQuery) ELSE found

\* requests: an equality on the section (a stored one or one no boulder
\* has), a substring of the name, a ranged difficulty, in any combination
FilterCalls ==
    [fn : {"get_boulders_filtered"}, latest_walls_only : BOOLEAN,
     conditions : [section : {NoKey, Key(1), Key(3)},
                   name : {NoKey, Key(<<"1">>)},
                   difficulty : {NoKey, Key("3")}],
     equals : {{"section"}}, contains : {{"name"}}, ranged : {{"difficulty"}}]

\* get_boulders_filtered, one whole call with its wrappers
get_boulders_filtered ==
    /\ nav_pc = "idle"
    /\ \E c \in FilterCalls :
           /\ nav_call' = c
           /\ nav_ret' = postprocess_items(filtered_boulder_data(c))
    /\ nav_list' = <<>>
    /\ nav_pc' = "returned"
    /\ UNCHANGED <<store_vars, tick_vars>>

\* the name of a boulder, unique within the gym
BoulderName(i) == <<"b", <<"1", "2", "3", "4", "5">>[i]>>

\* stored difficulty and section of the boulders the filter runs over:
\* codes (20, 30) and values off the codes on both sides of 25 and of 35
FilterBoulderData ==
    {<<20, 1>>, <<24, 2>>, <<26, 1>>, <<30, 1>>, <<30, 2>>, <<34, 2>>, <<36, 1>>}

InitFilter ==
    /\ \E f \in [BoulderIds -> FilterBoulderData] :
           boulders = [i \in BoulderIds |->
                          [difficulty |-> f[i][1], section |-> f[i][2], time |-> 0,
                           rating |-> 0, repetitions |-> 0, name |-> BoulderName(i)]]
    /\ walls \in NavWalls
    /\ users = [u \in UserIds |-> IF u = "u1" THEN UserDoc(<<>>, "a") ELSE None]
    /\ TickIdle
    /\ NavIdle

NextFilter ==
    \/ get_boulders_filtered
    \/ NavRespond

SpecFilter == InitFilter /\ [][NextFilter]_vars

\* ------------------------------------------- SpecList: user-list traversal
\* In this specification the boulders of all gyms are held in `boulders`,
\* each with the gym whose collection it is in, and `walls` maps
\* <<gym, section image>> to the latest flag.
Gyms == {"g1", "g2"}

\* a ticklist entry as the user-list traversal reads it
ListEntry(iden, gym, is_done) ==
    [iden |-> iden, gym |-> gym, is_done |-> is_done, date_climbed |-> NoDate]

\* get_boulder_by_id(gym, boulder_id, database) with its wrappers
get_boulder_by_id(gym, boulder_id) ==
    IF boulder_id \in DOMAIN boulders /\ boulders[boulder_id].gym = gym
    THEN postprocess_boulder_data(
             [k \in {"_id"} \cup (DOMAIN boulders[boulder_id] \ {"gym"}) |->
                 IF k = "_id" THEN boulder_id ELSE boulders[boulder_id][k]])
    ELSE EmptyObj

\* [wall['image'] for wall in get_gym_walls(gym, database, latest)]
gym_wall_images(gym, latest) ==
    {k[2] : k \in {w \in DOMAIN walls : w[1] = gym /\ (latest => walls[w])}}

USER_LIST_SORTING_FIELD_MAP ==
    [creation_date |-> "_id", difficulty |-> "difficulty_int", section |-> "section",
     rating |-> "rating", repetitions |-> "repetitions"]
REVERSE_MAPS == [green |-> 0, blue |-> 1, yellow |-> 2, red |-> 3]

\* the `match fields` loops: the problem takes gym and is_done of the last
\* ticklist entry with its identity; p['_id'] of an empty dict raises
match_fields(problems, ticklist_p) ==
    IF \E i \in 1..Len(problems) : problems[i] = EmptyObj
    THEN Raised("KeyError")
    ELSE ListResult([i \in 1..Len(problems) |->
             LET p == problems[i]
                 t == ticklist_p[CHOOSE k \in 1..Len(ticklist_p) :
                                     /\ ticklist_p[k].iden = p._id
                                     /\ \A m \in (k + 1)..Len(ticklist_p) :
                                            ticklist_p[m].iden # p._id]
             IN  p @@ [gym |-> t.gym, is_done |-> t.is_done,
                       difficulty_int |-> REVERSE_MAPS[p.difficulty]]])

\* the status filter
filter_to_show(problems, to_show) ==
    IF to_show = "done" THEN Filter(problems, LAMBDA p : p.is_done)
    ELSE IF to_show = "to_do" THEN Filter(problems, LAMBDA p : ~p.is_done)
    ELSE problems

\* datetime.timestamp(datetime.fromisoformat(time)): seconds of the stored day
timestamp(time) == 86400 * time

\* variant of the sort key: the sign of the timestamp is the other one, so
\* that the time follows the direction of the primary field
TimeFollowsPrimary(p, sort_by, is_ascending) ==
    <<p[USER_LIST_SORTING_FIELD_MAP[sort_by]],
      (IF ~is_ascending THEN -1 ELSE 1) * timestamp(p.time)>>
\* the sort key of the lambda handed to problems.sort
sort_key(p, sort_by, is_ascending) ==
    <<p[USER_LIST_SORTING_FIELD_MAP[sort_by]],
      (IF ~is_ascending THEN 1 ELSE -1) * timestamp(p.time)>>

\* comparison of two key tuples
TupleLess(a, b) == a[1] < b[1] \/ (a[1] = b[1] /\ a[2] < b[2])

\* x goes before y in list.sort(key, reverse)
SortsBefore(x, y, sort_by, is_ascending) ==
    IF ~is_ascending
    THEN TupleLess(sort_key(y, sort_by, is_ascending), sort_key(x, sort_by, is_ascending))
    ELSE TupleLess(sort_key(x, sort_by, is_ascending), sort_key(y, sort_by, is_ascending))

\* stable insertion of x into a sorted list: before the first element that
\* x goes before, after every element it ties with
InsertSorted(sorted, x, sort_by, is_ascending) ==
    LET later == {j \in 1..Len(sorted) : SortsBefore(x, sorted[j], sort_by, is_ascending)}
        pos == IF later = {} THEN Len(sorted) + 1
               ELSE CHOOSE j \in later : \A m \in later : j <= m
    IN  SubSeq(sorted, 1, pos - 1) \o <<x>> \o SubSeq(sorted, pos, Len(sorted))

RECURSIVE sort_problems(_, _, _)
\* problems.sort(key=..., reverse=not is_ascending): a stable sort, also
\* when reversed
sort_problems(problems, sort_by, is_ascending) ==
    IF problems = <<>> THEN <<>>
    ELSE InsertSorted(sort_problems(SubSeq(problems, 1, Len(problems) - 1),
                                    sort_by, is_ascending),
                      problems[Len(problems)], sort_by, is_ascending)

\* the value both user-list traversals return: a tuple
ListReturn(boulder, gym_code) == [boulder |-> boulder, gym_code |-> gym_code]

RECURSIVE PairsWithCurrentGym(_, _, _, _)
\* variant of the walk: the gym returned with a found boulder is the gym of
\* the boulder the walk started from
PairsWithCurrentGym(problems, idx, next_idx, latest_wall_set) ==
    IF idx + next_idx >= Len(problems) THEN Raised("IndexError")
    ELSE LET candidate == problems[idx + next_idx + 1]
             next_boulder == get_boulder_by_id(candidate.gym, candidate._id)
             valid_gym_sections == gym_wall_images(candidate.gym, latest_wall_set)
         IN  IF next_boulder # EmptyObj /\ next_boulder.section \in valid_gym_sections
             THEN ListReturn(next_boulder, problems[idx + 1].gym)
             ELSE IF next_idx + 1 = Len(problems)
             THEN ListReturn(EmptyObj, problems[idx + 1].gym)
             ELSE PairsWithCurrentGym(problems, idx, next_idx + 1, latest_wall_set)
RECURSIVE PairsWithLastCandidate(_, _, _, _)
\* variant of the walk: the gym returned with the empty result is the gym of
\* the last candidate examined
PairsWithLastCandidate(problems, idx, next_idx, latest_wall_set) ==
    IF idx + next_idx >= Len(problems) THEN Raised("IndexError")
    ELSE LET candidate == problems[idx + next_idx + 1]
             next_boulder == get_boulder_by_id(candidate.gym, candidate._id)
             valid_gym_sections == gym_wall_images(candidate.gym, latest_wall_set)
         IN  IF next_boulder # EmptyObj /\ next_boulder.section \in valid_gym_sections
             THEN ListReturn(next_boulder, candidate.gym)
             ELSE IF next_idx + 1 = Len(problems)
             THEN ListReturn(EmptyObj, candidate.gym)
             ELSE PairsWithLastCandidate(problems, idx, next_idx + 1, latest_wall_set)
RECURSIVE next_walk(_, _, _, _)
\* the while loop of get_next_boulder_from_user_list; idx and next_idx are
\* the 0-based values of the code, problems[k] raises IndexError for
\* k >= len(problems)
next_walk(problems, idx, next_idx, latest_wall_set) ==
    IF idx + next_idx >= Len(problems) THEN Raised("IndexError")
    ELSE LET candidate == problems[idx + next_idx + 1]
             next_boulder == get_boulder_by_id(candidate.gym, candidate._id)
             valid_gym_sections == gym_wall_images(candidate.gym, latest_wall_set)
         IN  IF next_boulder # EmptyObj /\ next_boulder.section \in valid_gym_sections
             THEN ListReturn(next_boulder, candidate.gym)
             ELSE IF next_idx + 1 = Len(problems)
             THEN ListReturn(EmptyObj, problems[idx + 1].gym)
             ELSE next_walk(problems, idx, next_idx + 1, latest_wall_set)

\* problems[k] of Python for any integer k: negative k counts from the end
PyIndex(problems, k) ==
    IF k >= 0 THEN problems[k + 1] ELSE problems[Len(problems) + k + 1]

RECURSIVE previous_walk(_, _, _, _)
\* the while loop of get_previous_boulder_from_user_list; next_idx is
\* negative, problems[k] raises IndexError for k < -len(problems)
previous_walk(problems, idx, next_idx, latest_wall_set) ==
    IF idx + next_idx < -Len(problems) THEN Raised("IndexError")
    ELSE LET candidate == PyIndex(problems, idx + next_idx)
             next_boulder == get_boulder_by_id(candidate.gym, candidate._id)
             valid_gym_sections == gym_wall_images(candidate.gym, latest_wall_set)
         IN  IF next_boulder # EmptyObj /\ next_boulder.section \in valid_gym_sections
             THEN ListReturn(next_boulder, candidate.gym)
             ELSE IF next_idx - 1 = 0
             THEN ListReturn(EmptyObj, problems[idx + 1].gym)
             ELSE previous_walk(problems, idx, next_idx - 1, latest_wall_set)

\* from the index lookup to the return, over the sorted problems
walk_from(problems, c) ==
    IF problems = <<>> THEN ListReturn(EmptyObj, "")
    ELSE LET idx == IndexOf(Ids(problems), c.boulder_id) - 1
         IN  IF idx = -1 THEN Raised("ValueError")
             ELSE IF c.fn = "get_next_boulder_from_user_list"
             THEN IF idx # Len(problems) - 1
                  THEN next_walk(problems, idx, 1, c.latest_wall_set)
                  ELSE ListReturn(EmptyObj, problems[idx + 1].gym)
             ELSE IF idx # 0
                  THEN previous_walk(problems, idx, -1, c.latest_wall_set)
                  ELSE ListReturn(EmptyObj, problems[idx + 1].gym)

\* the hydrated, matched, filtered and sorted problems, or the error the
\* match loop raised
user_list_problems(c) ==
    LET ticklist_p == get_user_problem_list_by_id(c.user_id)
        hydrated == [i \in 1..Len(ticklist_p) |->
                        get_boulder_by_id(ticklist_p[i].gym, ticklist_p[i].iden)]
        matched == match_fields(hydrated, ticklist_p)
    IN  IF matched = Raised("KeyError") THEN matched
        ELSE ListResult(sort_problems(filter_to_show(matched.list, c.to_show),
                                      c.sort_by, c.is_ascending))

ListSortKeys == {"creation_date", "difficulty", "rating"}
ListCalls ==
    [fn : {"get_next_boulder_from_user_list", "get_previous_boulder_from_user_list"},
     boulder_id : BoulderIds, user_id : {"u1"}, latest_wall_set : BOOLEAN,
     sort_by : ListSortKeys, is_ascending : BOOLEAN, to_show : {"done", "to_do", "all"}]

\* a user-list traversal, one whole call
ListTraverse(c) ==
    /\ nav_pc = "idle"
    /\ LET problems == user_list_problems(c)
       IN  IF problems = Raised("KeyError")
           THEN nav_list' = <<>> /\ nav_ret' = problems
           ELSE nav_list' = problems.list /\ nav_ret' = walk_from(problems.list, c)
    /\ nav_call' = c
    /\ nav_pc' = "returned"
    /\ UNCHANGED <<store_vars, tick_vars>>

get_next_boulder_from_user_list ==
    \E c \in ListCalls : c.fn = "get_next_boulder_from_user_list" /\ ListTraverse(c)
get_previous_boulder_from_user_list ==
    \E c \in ListCalls : c.fn = "get_previous_boulder_from_user_list" /\ ListTraverse(c)

\* gym and section of a stored boulder: gym 1 has two sections, gym 2 one
ListPlaces == {<<"g1", 1>>, <<"g1", 2>>, <<"g2", 1>>}

\* the sort fields follow from the identity: difficulties alternate, the
\* times go in pairs, rating and repetitions tie throughout
ListBoulder(i, place) ==
    [gym |-> place[1], section |-> place[2], difficulty |-> 10 * (i % 2),
     time |-> (i \div 2) % 2, rating |-> 0, repetitions |-> 0]

\* wall configurations: section 1 of each gym latest or not, section 2 an
\* old wall
ListWalls == {w \in [Gyms \X Sections -> BOOLEAN] : \A g \in Gyms : ~w[<<g, 2>>]}

\* the user's list: every stored boulder, newest identity first, none or
\* one of them done; or these with none done and, last, an entry whose
\* boulder is in no collection
ListTicklists ==
    LET entries(done) ==
            [k \in 1..NumBoulders |->
                ListEntry(NumBoulders + 1 - k, boulders[NumBoulders + 1 - k].gym,
                          NumBoulders + 1 - k = done)]
    IN  {entries(done) : done \in 0..NumBoulders}
            \cup {Append(entries(0), ListEntry(NumBoulders + 1, "g1", FALSE))}

InitList ==
    /\ \E f \in [BoulderIds -> ListPlaces] :
           boulders = [i \in BoulderIds |-> ListBoulder(i, f[i])]
    /\ walls \in ListWalls
    /\ \E tl \in ListTicklists :
           users = [u \in UserIds |-> IF u = "u1" THEN UserDoc(tl, "a") ELSE None]
    /\ TickIdle
    /\ NavIdle

NextList ==
    \/ get_next_boulder_from_user_list
    \/ get_previous_boulder_from_user_list
    \/ NavRespond

SpecList == InitList /\ [][NextList]_vars

\* ------------------------------------- SpecNorm: the normalization wrapper
\* In this specification a categorical value carries its kind, an internal
\* code or a word of the external vocabulary, so that a word can be looked
\* up among the codes; a returned value carries its Python type.
Code(c) == [code |-> c]
Word(w) == [word |-> w]

\* maps_to_apply['difficulty'][value]: the word of a code that is a key,
\* KeyError for anything else
map_difficulty(value) ==
    IF "code" \in DOMAIN value /\ value.code \in DOMAIN FIELDS_TO_MAP
    THEN Word(FIELDS_TO_MAP[value.code])
    ELSE Raised("KeyError")

\* the two inner loops of the wrapper on one boulder: fields_to_check
\* fills repetitions, maps_to_apply maps the difficulty when it is there;
\* an empty boulder is skipped
normalize_boulder(boulder) ==
    IF boulder = EmptyObj THEN boulder
    ELSE LET filled == IF "repetitions" \in DOMAIN boulder THEN boulder
                       ELSE boulder @@ [repetitions |-> 0]
         IN  IF "difficulty" \notin DOMAIN filled THEN filled
             ELSE IF map_difficulty(filled.difficulty) = Raised("KeyError")
             THEN Raised("KeyError")
             ELSE [filled EXCEPT !.difficulty = map_difficulty(@)]

\* a value a wrapped function returns: a list, a dict with ITEMS, a
\* single object
ListValue(l) == [type |-> "list", value |-> ListResult(l)]
ItemsValue(l) == [type |-> "dict", value |-> [Items |-> l]]
ObjectValue(o) == [type |-> "dict", value |-> o]

\* every boulder of the list normalized, or the KeyError one of them raised
normalize_all(l) ==
    IF \E i \in 1..Len(l) : normalize_boulder(l[i]) = Raised("KeyError")
    THEN Raised("KeyError")
    ELSE ListResult([i \in 1..Len(l) |-> normalize_boulder(l[i])])

\* the wrapper of postprocess_boulder_data on the value func returned
wrapper(boulder_data) ==
    IF boulder_data.type = "list"
    THEN LET r == normalize_all(boulder_data.value.list)
         IN  IF r = Raised("KeyError") THEN r ELSE ListValue(r.list)
    ELSE IF boulder_data.value = EmptyObj THEN boulder_data
    ELSE IF "Items" \in DOMAIN boulder_data.value
    THEN LET r == normalize_all(boulder_data.value.Items)
         IN  IF r = Raised("KeyError") THEN r ELSE ItemsValue(r.list)
    ELSE LET r == normalize_boulder(boulder_data.value)
         IN  IF r = Raised("KeyError") THEN r ELSE ObjectValue(r)

\* boulders as the store holds them: the difficulty a code, the repetition
\* counter there or not (older records); and entries without a difficulty
StoredBoulders ==
    [difficulty : {Code(c) : c \in DOMAIN FIELDS_TO_MAP}, repetitions : {0, 1}]
        \cup [difficulty : {Code(c) : c \in DOMAIN FIELDS_TO_MAP}]
        \cup {[iden |-> 1], EmptyObj}

\* values the wrapped functions return before the wrapper has run
RawValues ==
    {ObjectValue(b) : b \in StoredBoulders}
        \cup {ListValue(<<>>), ItemsValue(<<>>)}
        \cup {ListValue(<<b>>) : b \in StoredBoulders}
        \cup {ItemsValue(<<b>>) : b \in StoredBoulders}
        \cup {ListValue(<<a, b>>) : a, b \in StoredBoulders}

\* the wrapper runs on the value held: on the raw value a function
\* returned, or on a value that went through the wrapper before
postprocess ==
    /\ nav_pc \in {"raw", "normalized"}
    /\ nav_ret' = wrapper(nav_ret)
    /\ nav_pc' = IF wrapper(nav_ret) = Raised("KeyError") THEN "raised" ELSE "normalized"
    /\ nav_call' = [fn |-> "postprocess_boulder_data", boulder_data |-> nav_ret]
    /\ UNCHANGED <<nav_list, store_vars, tick_vars>>

InitNorm ==
    /\ nav_ret \in RawValues
    /\ nav_pc = "raw"
    /\ nav_call = NoCall
    /\ nav_list = <<>>
    /\ boulders = [i \in BoulderIds |->
                      [difficulty |-> 0, time |-> 0, section |-> 1,
                       rating |-> 1, repetitions |-> 0]]
    /\ walls = [s \in Sections |-> FALSE]
    /\ users = [u \in UserIds |-> None]
    /\ TickIdle

NextNorm == postprocess

SpecNorm == InitNorm /\ [][NextNorm]_vars

\* ------------------------------------------- properties: collection traversal
\* the value of the field a sort key names
SortValue(doc, sort_by) ==
    CASE sort_by = "creation_date" -> doc._id
      [] sort_by = "difficulty" -> doc.difficulty
      [] sort_by = "section" -> doc.section
      [] sort_by = "rating" -> doc.rating
      [] sort_by = "repetitions" -> doc.repetitions

\* the returned value is the stored document doc (as normalised for output)
IsBoulder(r, doc) ==
    /\ DOMAIN r = DOMAIN doc
    /\ r._id = doc._id
    /\ r.section = doc.section
    /\ r.rating = doc.rating
    /\ r.repetitions = doc.repetitions
    /\ r.time = doc.time

NavReturned(fn) == nav_pc = "returned" /\ nav_call.fn = fn

NoLater(a, b, sort_by, is_ascending) ==
    LET va == SortValue(a, sort_by)
        vb == SortValue(b, sort_by)
    IN  \/ (is_ascending /\ va < vb)
        \/ (~is_ascending /\ va > vb)
        \/ (va = vb /\ a.time >= b.time)

\* the boulder is in the scope the call asked for
InScope(doc, c) ==
    /\ c.latest_wall_set => walls[doc.section]
    /\ (c.show[1] = "to_do" /\ c.show[2] # "" /\ users[c.show[2]] # None) =>
           ~\E k \in 1..Len(users[c.show[2]].ticklist) :
                /\ users[c.show[2]].ticklist[k].iden = doc._id
                /\ users[c.show[2]].ticklist[k].is_done

\* C2: traversal adjacency. The sequence S a traversal computes holds
\* exactly the gym's boulders in scope, ordered by the mapped sort field in
\* the requested direction and, on equal sort field, by time descending
\* whatever the ascending flag; from the identity at index i,
\* get_next_boulder returns S[i+1] when i is not the last index and
\* get_previous_boulder returns S[i-1] when i is not the first.
C2_Adjacency ==
    nav_pc = "returned" =>
        LET S == nav_list
            c == nav_call
        IN  /\ {S[i] : i \in 1..Len(S)} = {BoulderDoc(b) : b \in {x \in BoulderIds : InScope(BoulderDoc(x), c)}}
            /\ \A i, j \in 1..Len(S) :
                   /\ i < j => NoLater(S[i], S[j], c.sort_by, c.is_ascending)
                   /\ i # j => S[i]._id # S[j]._id
            /\ \A i \in 1..Len(S) :
                   S[i]._id = c.boulder_id =>
                       /\ (c.fn = "get_next_boulder" /\ i < Len(S))
                              => IsBoulder(nav_ret, S[i + 1])
                       /\ (c.fn = "get_previous_boulder" /\ i > 1)
                              => IsBoulder(nav_ret, S[i - 1])

\* C2 witness: an ascending traversal stepped from a boulder to a neighbour
\* that ties with it on the sort field and is older
C2_Witness ==
    /\ NavReturned("get_next_boulder")
    /\ nav_call.is_ascending
    /\ \E i \in 1..(Len(nav_list) - 1) :
           /\ nav_list[i]._id = nav_call.boulder_id
           /\ SortValue(nav_list[i], nav_call.sort_by) = SortValue(nav_list[i + 1], nav_call.sort_by)
           /\ nav_list[i].time > nav_list[i + 1].time
           /\ IsBoulder(nav_ret, nav_list[i + 1])

\* ------------------------------------------- properties: ticklist mutator
\* identities of a ticklist
Idens(tl) == {tl[k].iden : k \in 1..Len(tl)}
\* position of the entry with the identity
PosOf(tl, iden) == CHOOSE k \in 1..Len(tl) : tl[k].iden = iden
\* an entry's history read as a sequence (a single string is one date)
History(e) == e.date_climbed.dates
\* the ticklist handler p read, the identity and flags its request carries
ReadList(p) == user[p].ticklist
Iden(p) == call[p].boulder_data.iden
Clicked(p) == call[p].mark_as_done_clicked /\ call[p].boulder_data.is_done

\* handler p, having found the user, completes its put / delete in this step
PutFinishes(p) == pc[p] = "put_found" /\ pc'[p] = "done" /\ user[p] # None
DeleteFinishes(p) == pc[p] = "delete_found" /\ pc'[p] = "done" /\ user[p] # None
\* handler p has returned from a put / delete on a user it found
PutDone(p) ==
    pc[p] = "done" /\ call[p].fn = "put_boulder_in_ticklist" /\ user[p] # None
DeleteDone(p) ==
    pc[p] = "done" /\ call[p].fn = "delete_boulder_in_ticklist" /\ user[p] # None

\* C3: ticklist uniqueness. From a stored ticklist without a repeated
\* identity, whatever puts and deletes run, interleaved or not, the stored
\* ticklist holds at most one entry per boulder identity.
C3_TicklistUnique ==
    \A u \in UserIds :
        users[u] # None =>
            \A i, j \in 1..Len(users[u].ticklist) :
                users[u].ticklist[i].iden = users[u].ticklist[j].iden => i = j

\* C3 witness: a put and a delete that read the same ticklist have both
\* written, and entries remain
C3_Witness ==
    /\ PutDone(1) /\ DeleteDone(2)
    /\ ReadList(1) = ReadList(2)
    /\ Iden(1) \in Idens(ReadList(1))
    /\ Clicked(1)
    /\ Len(users["u1"].ticklist) >= 2

\* C4: lost update. Nothing compares the stored ticklist with the one that
\* was read: a put that changes the ticklist it read replaces the stored
\* ticklist by its own result, so of two puts that read the same ticklist
\* only the later writer's change is stored.
C4_LastWriterWins ==
    [][\A p \in Procs :
          (PutFinishes(p) /\ ret'[p].list # ReadList(p))
              => users'[call[p].user_id].ticklist = ret'[p].list]_vars

\* C4 witness: both puts read the same ticklist, each added its own boulder,
\* and the stored ticklist holds the second one's boulder only
C4_Witness ==
    /\ PutDone(1) /\ PutDone(2)
    /\ ReadList(1) = ReadList(2)
    /\ Iden(1) # Iden(2)
    /\ Iden(1) \notin Idens(ReadList(1)) /\ Iden(2) \notin Idens(ReadList(2))
    /\ Iden(1) \in Idens(ret[1].list) /\ Iden(2) \in Idens(ret[2].list)
    /\ users["u1"].ticklist = ret[2].list
    /\ Iden(1) \notin Idens(users["u1"].ticklist)

\* C5: a ticklist mutation changes no field of the stored user record but
\* the ticklist, also when another writer changed such a field between the
\* mutator's read and its write.
C5_OtherFieldsKept ==
    [][\A p \in Procs :
          (PutFinishes(p) \/ DeleteFinishes(p))
              => users'[call[p].user_id].email = users[call[p].user_id].email]_vars

\* C6: climb-date append. Marking the entry at an index with date d turns a
\* history that is a single string s into the list [s, d], a list h into h
\* followed by d and an absent history into [d]; the other entries and the
\* entry's identity are as they were.
C6_ClimbDateAppend ==
    [][\A p \in Procs :
          (PutFinishes(p) /\ Iden(p) \in Idens(ReadList(p)) /\ Clicked(p)) =>
              LET i == PosOf(ReadList(p), Iden(p))
                  old == ReadList(p)[i].date_climbed
                  new == ret'[p].list[i].date_climbed
              IN  /\ Len(ret'[p].list) = Len(ReadList(p))
                  /\ new.kind = "list"
                  /\ old.kind = "str" => new.dates = <<old.dates[1], today>>
                  /\ old.kind = "list" => new.dates = old.dates \o <<today>>
                  /\ old.kind = "absent" => new.dates = <<today>>
                  /\ ret'[p].list[i].iden = ReadList(p)[i].iden
                  /\ \A k \in 1..Len(ReadList(p)) :
                         k # i => ret'[p].list[k] = ReadList(p)[k]]_vars

\* C6 witness: an entry stored with a single date string was marked done
\* again on a later day
C6_Witness ==
    \E p \in Procs :
        /\ PutDone(p) /\ Clicked(p)
        /\ Iden(p) \in Idens(ReadList(p))
        /\ LET i == PosOf(ReadList(p), Iden(p))
           IN  /\ ReadList(p)[i].date_climbed = DateStr(1)
               /\ ret[p].list[i].date_climbed = DateList(<<1, 2>>)
               /\ Len(ReadList(p)) >= 2

\* C7: re-add is a no-op. A put of an identity already in the ticklist,
\* without the mark-as-done click or with the incoming completion flag
\* false, returns the ticklist it read and writes nothing.
C7_ReAddNoOp ==
    [][\A p \in Procs :
          (PutFinishes(p) /\ Iden(p) \in Idens(ReadList(p)) /\ ~Clicked(p)) =>
              /\ ret'[p].list = ReadList(p)
              /\ users' = users]_vars

\* C7 witness: a present identity was put again with the completion flag
\* set but without the click, and the same ticklist came back
C7_Witness ==
    \E p \in Procs :
        /\ PutDone(p)
        /\ Iden(p) \in Idens(ReadList(p))
        /\ call[p].boulder_data.is_done /\ ~call[p].mark_as_done_clicked
        /\ ret[p].list = ReadList(p)
        /\ users["u1"].ticklist = ReadList(p)

\* C8: mark-done on a present entry. The entry's completion flag becomes
\* true and its history grows by exactly one date, today, also when today
\* is already in it; no other entry changes; the result is stored, so a
\* call that nothing overlapped adds exactly one date to the stored history.
C8_MarkDoneAddsOneDate ==
    [][\A p \in Procs :
          (PutFinishes(p) /\ Iden(p) \in Idens(ReadList(p)) /\ Clicked(p)) =>
              LET i == PosOf(ReadList(p), Iden(p))
                  before == History(ReadList(p)[i])
                  after == History(ret'[p].list[i])
                  u == call[p].user_id
              IN  /\ ret'[p].list[i].is_done
                  /\ Len(after) = Len(before) + 1
                  /\ after[Len(after)] = today
                  /\ SubSeq(after, 1, Len(before)) = before
                  /\ \A k \in 1..Len(ReadList(p)) :
                         k # i => ret'[p].list[k] = ReadList(p)[k]
                  /\ users'[u].ticklist = ret'[p].list
                  /\ users[u].ticklist = ReadList(p) =>
                         Len(History(users'[u].ticklist[i]))
                             = Len(History(users[u].ticklist[i])) + 1]_vars

\* C8 witness: an entry marked earlier the same day was marked again, and
\* the stored history holds that day twice
C8_Witness ==
    \E p \in Procs :
        /\ PutDone(p) /\ Clicked(p)
        /\ Iden(p) \in Idens(ReadList(p))
        /\ LET i == PosOf(ReadList(p), Iden(p))
           IN  /\ History(ReadList(p)[i]) = <<1, 2>>
               /\ today = 2
               /\ History(users["u1"].ticklist[i]) = <<1, 2, 2>>

\* C9: insert when absent. A put of an identity not in the ticklist appends
\* exactly one entry at the end, keeps the entries it read in place and
\* stores the list; the new entry's history is [today] exactly when the
\* click and the incoming completion flag are both true, and otherwise the
\* entry carries no date.
C9_InsertWhenAbsent ==
    [][\A p \in Procs :
          (PutFinishes(p) /\ Iden(p) \notin Idens(ReadList(p))) =>
              LET n == Len(ReadList(p))
                  new == ret'[p].list[n + 1]
              IN  /\ Len(ret'[p].list) = n + 1
                  /\ SubSeq(ret'[p].list, 1, n) = ReadList(p)
                  /\ new.iden = Iden(p)
                  /\ new.is_done = call[p].boulder_data.is_done
                  /\ Clicked(p) => new.date_climbed = DateList(<<today>>)
                  /\ ~Clicked(p) => new.date_climbed = NoDate
                  /\ users'[call[p].user_id].ticklist = ret'[p].list]_vars

\* C9 witness: a boulder marked done was appended, with today's date, after
\* an entry already there
C9_Witness ==
    \E p \in Procs :
        /\ PutDone(p) /\ Clicked(p)
        /\ Iden(p) \notin Idens(ReadList(p))
        /\ Len(ReadList(p)) >= 1
        /\ ret[p].list = Append(ReadList(p), Entry(Iden(p), TRUE, DateList(<<today>>)))
        /\ users["u1"].ticklist = ret[p].list

\* C10: remove by identity. After a delete the stored and the returned
\* ticklist hold no entry with the identity, and hold every other entry it
\* read, unchanged and in the order it had; when the identity is not there
\* the ticklist stays as it was read.
C10_RemoveByIdentity ==
    [][\A p \in Procs :
          DeleteFinishes(p) =>
              LET r == ReadList(p)
                  t == ret'[p].list
              IN  /\ Iden(p) \notin Idens(t)
                  /\ Idens(t) = Idens(r) \ {Iden(p)}
                  /\ Len(t) = Cardinality({k \in 1..Len(r) : r[k].iden # Iden(p)})
                  /\ \A a, b \in 1..Len(t) :
                         /\ \E k \in 1..Len(r) : r[k] = t[a]
                         /\ a < b => PosOf(r, t[a].iden) < PosOf(r, t[b].iden)
                  /\ Iden(p) \notin Idens(r) => t = r
                  /\ users'[call[p].user_id].ticklist = t]_vars

\* C10 witness: of two entries the first was removed and the second stayed
C10_Witness ==
    \E p \in Procs :
        /\ DeleteDone(p)
        /\ Len(ReadList(p)) = 2
        /\ ReadList(p)[1].iden = Iden(p)
        /\ ret[p].list = <<ReadList(p)[2]>>
        /\ users["u1"].ticklist = ret[p].list

\* handler p, having found no user, completes its put / delete in this step
PutFinishesAbsent(p) == pc[p] = "put_found" /\ pc'[p] = "done" /\ user[p] = None
DeleteFinishesAbsent(p) == pc[p] = "delete_found" /\ pc'[p] = "done" /\ user[p] = None

\* C11: remove for an absent user. When find_one matched no user record,
\* delete_boulder_in_ticklist returns the empty list, raises nothing and
\* leaves the users collection as it was.
C11_DeleteAbsentUser ==
    [][\A p \in Procs :
          DeleteFinishesAbsent(p) =>
              /\ ret'[p] = ListResult(<<>>)
              /\ users' = users]_vars

\* C11 witness: a delete for the user that does not exist has returned the
\* empty list
C11_Witness ==
    \E p \in Procs :
        /\ pc[p] = "done"
        /\ call[p].fn = "delete_boulder_in_ticklist"
        /\ call[p].user_id = "u2"
        /\ user[p] = None
        /\ ret[p] = ListResult(<<>>)
        /\ users["u2"] = None

\* C12: insert-or-update-done for an absent user. When find_one matched no
\* user record, put_boulder_in_ticklist returns an empty result (the empty
\* list or the empty object), never an exception, and writes nothing.
C12_PutAbsentUser ==
    [][\A p \in Procs :
          PutFinishesAbsent(p) =>
              /\ ret'[p] \in {ListResult(<<>>), EmptyObj}
              /\ users' = users]_vars

\* --------------------------------- properties: scope of collection traversal
\* a collection traversal has returned
TraversalReturned ==
    nav_pc = "returned" /\ nav_call.fn \in {"get_next_boulder", "get_previous_boulder"}
\* the supplied identity is not in the sequence the traversal computed
IdentityNotInList ==
    \A i \in 1..Len(nav_list) : nav_list[i]._id # nav_call.boulder_id

\* C13 as stated: whenever the supplied identity is not an element of the
\* computed sequence, the empty sequence included, the traversal ends in
\* the identity-not-found error and returns no boulder and no empty object.
C13_NotInScopeAlwaysError ==
    (TraversalReturned /\ IdentityNotInList) => nav_ret = Raised("ValueError")

\* C13, amended: when the supplied identity is not an element of a
\* non-empty computed sequence the traversal ends in the identity-not-found
\* error; when the computed sequence is empty it returns the empty object
\* and raises nothing.
C13_NotInScope ==
    (TraversalReturned /\ IdentityNotInList) =>
        /\ nav_list # <<>> => nav_ret = Raised("ValueError")
        /\ nav_list = <<>> => nav_ret = EmptyObj

\* C13 witness: get_previous_boulder was asked from a boulder the user has
\* done, with done boulders excluded and other boulders left in the list
C13_Witness ==
    /\ NavReturned("get_previous_boulder")
    /\ nav_call.show = <<"to_do", "u1">>
    /\ nav_call.boulder_id = 2
    /\ nav_list # <<>>
    /\ IdentityNotInList
    /\ nav_ret = Raised("ValueError")

\* identities the user's ticklist holds with the completion flag true
DoneIdens(user_id) ==
    LET tl == users[user_id].ticklist
    IN  {tl[k].iden : k \in {j \in 1..Len(tl) : tl[j].is_done}}

\* C14: exclude-done scoping. With to_show 'to_do' and a user id, the
\* sequence the traversal computes holds the boulders of the wall scope
\* that the user's ticklist does not hold as done, and only those; the
\* returned boulder is the neighbour of the supplied identity within that
\* sequence, so it is never a boulder the user has done.
C14_ExcludeDone ==
    (TraversalReturned /\ nav_call.show[1] = "to_do" /\ nav_call.show[2] # "") =>
        LET done == DoneIdens(nav_call.show[2])
            S == nav_list
            n == Len(nav_list)
        IN  /\ {S[i]._id : i \in 1..n}
                  = {b \in BoulderIds :
                        /\ nav_call.latest_wall_set => walls[boulders[b].section]
                        /\ b \notin done}
            /\ \A i \in 1..n :
                   S[i]._id = nav_call.boulder_id =>
                       IsBoulder(nav_ret,
                                 IF nav_call.fn = "get_next_boulder"
                                 THEN S[IF i < n THEN i + 1 ELSE i]
                                 ELSE S[IF i > 1 THEN i - 1 ELSE i])
            /\ "_id" \in DOMAIN nav_ret => nav_ret._id \notin done

\* C14 witness: by creation date the done boulder 2 lies between boulders 1
\* and 3, and the next boulder after 1 that was returned is 3
C14_Witness ==
    /\ NavReturned("get_next_boulder")
    /\ nav_call.show = <<"to_do", "u1">>
    /\ nav_call.sort_by = "creation_date" /\ nav_call.is_ascending
    /\ ~nav_call.latest_wall_set
    /\ nav_call.boulder_id = 1
    /\ 2 \in DoneIdens("u1")
    /\ "_id" \in DOMAIN nav_ret
    /\ nav_ret._id = 3

\* C15: empty wall set yields empty scope. With latest-only scoping and no
\* wall of the gym marked latest, the traversal computes the empty sequence
\* and returns the empty object whatever identity was supplied; it does not
\* fall back to the whole collection.
C15_EmptyWallSet ==
    (TraversalReturned /\ nav_call.latest_wall_set /\ \A s \in DOMAIN walls : ~walls[s]) =>
        /\ nav_list = <<>>
        /\ nav_ret = EmptyObj

\* C15 witness: a latest-only traversal over a gym that has boulders and no
\* latest wall returned the empty object for a stored boulder's identity
C15_Witness ==
    /\ NavReturned("get_next_boulder")
    /\ nav_call.latest_wall_set
    /\ \A s \in DOMAIN walls : ~walls[s]
    /\ nav_call.boulder_id \in DOMAIN boulders
    /\ nav_call.show[1] = "all"
    /\ nav_list = <<>>
    /\ nav_ret = EmptyObj

\* ------------------------------------------- properties: declarative filter
FilterReturned == nav_pc = "returned" /\ nav_call.fn = "get_boulders_filtered"

\* the stored boulder b satisfies every condition of the call and lies, when
\* latest walls only are asked for, in a section of the active wall set
Satisfies(b, c) ==
    /\ c.latest_walls_only => walls[boulders[b].section]
    /\ c.conditions.section # NoKey => boulders[b].section = c.conditions.section[1]
    /\ c.conditions.name # NoKey => HasSubstring(boulders[b].name, c.conditions.name[1])
    /\ c.conditions.difficulty # NoKey =>
           /\ boulders[b].difficulty > int(c.conditions.difficulty[1]) - 5
           /\ boulders[b].difficulty < int(c.conditions.difficulty[1]) + 5

\* C16: filter conjunction. Every boulder get_boulders_filtered returns for
\* a non-empty condition set satisfies all the conditions and, with latest
\* walls only, lies in an active section; when no boulder does, the item
\* list is empty.
C16_FilterConjunction ==
    (FilterReturned /\ Items(nav_call.conditions) # {} /\ "Items" \in DOMAIN nav_ret) =>
        \A item \in nav_ret.Items : Satisfies(item._id, nav_call)

\* C17: tolerance-range filter. With the one ranged condition
\* difficulty = 3, get_boulders_filtered returns exactly the records whose
\* difficulty lies strictly between 2.5 and 3.5.
C17_ToleranceRange ==
    (/\ FilterReturned
     /\ ~nav_call.latest_walls_only
     /\ nav_call.conditions = [section |-> NoKey, name |-> NoKey, difficulty |-> Key("3")]) =>
        /\ "Items" \in DOMAIN nav_ret
        /\ {item._id : item \in nav_ret.Items}
               = {b \in BoulderIds : boulders[b].difficulty > 25 /\ boulders[b].difficulty < 35}

\* ------------------------------------------- properties: user-list traversal
ListReturned(fn) == nav_pc = "returned" /\ nav_call.fn = fn

\* the traversal computed its sorted list (the match loop did not raise)
ListComputed ==
    /\ nav_pc = "returned"
    /\ nav_call.fn \in {"get_next_boulder_from_user_list",
                        "get_previous_boulder_from_user_list"}
    /\ nav_ret # Raised("KeyError")

\* the entry's wall section is in the wall set of the entry's own gym that
\* the call asked for
ActiveEntry(p) ==
    /\ <<p.gym, boulders[p._id].section>> \in DOMAIN walls
    /\ nav_call.latest_wall_set => walls[<<p.gym, boulders[p._id].section>>]

\* C18: user-list walk skip. Wherever the current boulder stands in the
\* filtered, sorted user list, when some later entry is active in its own
\* gym, get_next_boulder_from_user_list returns the first such later entry
\* together with that entry's gym.
C18_WalkSkip ==
    (ListReturned("get_next_boulder_from_user_list") /\ ListComputed) =>
        \A i \in 1..Len(nav_list) :
            \A j \in (i + 1)..Len(nav_list) :
                (/\ nav_list[i]._id = nav_call.boulder_id
                 /\ ActiveEntry(nav_list[j])
                 /\ \A m \in (i + 1)..(j - 1) : ~ActiveEntry(nav_list[m])) =>
                    /\ "boulder" \in DOMAIN nav_ret
                    /\ nav_ret.boulder = get_boulder_by_id(nav_list[j].gym, nav_list[j]._id)
                    /\ nav_ret.boulder # EmptyObj
                    /\ nav_ret.gym_code = nav_list[j].gym

\* C18 witness: of three boulders the middle one is on no active wall, the
\* third is in another gym than the first, and next from the first
\* returned the third with the third's gym
C18_Witness ==
    /\ ListReturned("get_next_boulder_from_user_list")
    /\ nav_call.latest_wall_set
    /\ Len(nav_list) = 3
    /\ nav_list[1]._id = nav_call.boulder_id
    /\ ~ActiveEntry(nav_list[2])
    /\ ActiveEntry(nav_list[3])
    /\ nav_list[3].gym # nav_list[1].gym
    /\ "boulder" \in DOMAIN nav_ret
    /\ nav_ret.boulder # EmptyObj
    /\ nav_ret.boulder._id = nav_list[3]._id
    /\ nav_ret.gym_code = nav_list[3].gym

\* C19: user-list traversal, identity absent. When the supplied identity is
\* not in the hydrated, status-filtered list, empty or not, both user-list
\* traversals raise nothing, walk nothing and return the empty result.
C19_IdentityAbsent ==
    (ListComputed /\ IdentityNotInList) => nav_ret = ListReturn(EmptyObj, "")

\* ------------------------------------------- properties: determinism
\* C20: determinism of traversal. Over an unchanged store, a traversal
\* called again with identical arguments computes the same ordering and
\* returns the same neighbour, also when boulders tie on both the sort
\* field and the timestamp.
C20_Determinism ==
    [][(/\ nav_pc = "returned" /\ nav_pc' = "returned"
        /\ nav_call' = nav_call
        /\ store_vars' = store_vars)
           => (nav_list' = nav_list /\ nav_ret' = nav_ret)]_vars

\* ------------------------------------------- properties: normalization
\* C21: normalization idempotence. Applying the wrapper to a record, item
\* list or keyed collection that is already normalized returns it
\* unchanged and raises no error.
C21_Idempotent ==
    [][nav_pc = "normalized" => nav_ret' = nav_ret]_vars

\* the user's ticklist holds an entry whose boulder is not in the
\* collection of the entry's gym
DanglingEntry ==
    \E k \in 1..Len(users["u1"].ticklist) :
        LET t == users["u1"].ticklist[k]
        IN  ~(t.iden \in DOMAIN boulders /\ boulders[t.iden].gym = t.gym)

UserListReturned ==
    /\ nav_pc = "returned"
    /\ nav_call.fn \in {"get_next_boulder_from_user_list",
                        "get_previous_boulder_from_user_list"}

\* C22: dangling ticklist entry. When the ticklist holds an entry whose
\* boulder is no longer in its gym's collection, both user-list traversals
\* treat that boulder as absent and complete without raising.
C22_DanglingEntry ==
    (UserListReturned /\ DanglingEntry) => "error" \notin DOMAIN nav_ret

\* the value of the primary sort field of a hydrated problem
PrimaryValue(p) == p[USER_LIST_SORTING_FIELD_MAP[nav_call.sort_by]]

\* C23 as stated: entries with equal primary sort value are ordered by
\* timestamp in the direction of the primary key, oldest first when
\* ascending and newest first when descending.
C23_TieBreakFollowsDirection ==
    ListComputed =>
        \A i, j \in 1..Len(nav_list) :
            (i < j /\ PrimaryValue(nav_list[i]) = PrimaryValue(nav_list[j])) =>
                IF nav_call.is_ascending
                THEN nav_list[i].time <= nav_list[j].time
                ELSE nav_list[i].time >= nav_list[j].time

\* position of the entry with the identity in the user's ticklist
TicklistPos(iden) ==
    CHOOSE k \in 1..Len(users["u1"].ticklist) : users["u1"].ticklist[k].iden = iden

\* C23, amended: entries with equal primary sort value are ordered newest
\* first whether ascending or descending is requested; entries that tie
\* on the timestamp as well keep the order they have in the ticklist.
C23_TieBreakNewestFirst ==
    ListComputed =>
        \A i, j \in 1..Len(nav_list) :
            (i < j /\ PrimaryValue(nav_list[i]) = PrimaryValue(nav_list[j])) =>
                /\ nav_list[i].time >= nav_list[j].time
                /\ nav_list[i].time = nav_list[j].time =>
                       TicklistPos(nav_list[i]._id) < TicklistPos(nav_list[j]._id)

\* C23 witness: in an ascending traversal an entry stands right before an
\* older one of equal primary value
C23_Witness ==
    /\ ListComputed
    /\ nav_call.is_ascending
    /\ \E i \in 1..(Len(nav_list) - 1) :
           /\ PrimaryValue(nav_list[i]) = PrimaryValue(nav_list[i + 1])
           /\ nav_list[i].time > nav_list[i + 1].time

\* the current boulder stands at position i of the computed list
CurrentAt(i) == i \in 1..Len(nav_list) /\ nav_list[i]._id = nav_call.boulder_id

\* C24: next walk exhaustion. Wherever the current boulder stands, when no
\* entry after it is active, get_next_boulder_from_user_list terminates
\* with the empty result, raising nothing and reading nothing past the end
\* of the list.
C24_NextExhaustion ==
    (ListReturned("get_next_boulder_from_user_list") /\ ListComputed) =>
        \A i \in 1..Len(nav_list) :
            (CurrentAt(i) /\ \A j \in (i + 1)..Len(nav_list) : ~ActiveEntry(nav_list[j])) =>
                /\ "boulder" \in DOMAIN nav_ret
                /\ nav_ret.boulder = EmptyObj

\* C25: previous walk exhaustion. Wherever the current boulder stands, when
\* no entry before it is active, get_previous_boulder_from_user_list
\* terminates with the empty result and no error; it returns neither the
\* current boulder nor an entry after it.
C25_PreviousExhaustion ==
    (ListReturned("get_previous_boulder_from_user_list") /\ ListComputed) =>
        \A i \in 1..Len(nav_list) :
            (CurrentAt(i) /\ \A j \in 1..(i - 1) : ~ActiveEntry(nav_list[j])) =>
                /\ "boulder" \in DOMAIN nav_ret
                /\ nav_ret.boulder = EmptyObj

\* the walk from position i examined a candidate: there is an entry on the
\* side the call walks to
Walked(i) ==
    /\ CurrentAt(i)
    /\ nav_call.fn = "get_next_boulder_from_user_list" => i < Len(nav_list)
    /\ nav_call.fn = "get_previous_boulder_from_user_list" => i > 1

\* C26 as stated: a walk that examined a candidate and found none valid
\* returns, next to the empty result, the gym of the last candidate it
\* examined.
C26_GymOfLastCandidate ==
    (UserListReturned /\ ListComputed) =>
        \A i \in 1..Len(nav_list) :
            (Walked(i) /\ "boulder" \in DOMAIN nav_ret /\ nav_ret.boulder = EmptyObj) =>
                nav_ret.gym_code
                    = IF nav_call.fn = "get_next_boulder_from_user_list"
                      THEN nav_list[Len(nav_list)].gym
                      ELSE nav_list[1].gym

\* C26, amended: a walk that examined a candidate and returns the empty
\* result returns with it the gym of the boulder the walk started from,
\* also when the last candidate examined is of another gym.
C26_GymOfStart ==
    (UserListReturned /\ ListComputed) =>
        \A i \in 1..Len(nav_list) :
            (Walked(i) /\ "boulder" \in DOMAIN nav_ret /\ nav_ret.boulder = EmptyObj) =>
                nav_ret.gym_code = nav_list[i].gym

\* C26 witness: next from the first of several entries found no active
\* later entry, the last of them is of another gym, and the empty result
\* came with the first entry's gym
C26_Witness ==
    /\ ListReturned("get_next_boulder_from_user_list")
    /\ Len(nav_list) >= 2
    /\ CurrentAt(1)
    /\ nav_list[Len(nav_list)].gym # nav_list[1].gym
    /\ nav_ret = ListReturn(EmptyObj, nav_list[1].gym)


\* ------------------------------------------- properties: ticklist history
\* C27: climb-date history is append-only. A put that nothing overlapped
\* (the stored ticklist is the one it read) leaves every entry it read in
\* its place, with a history that is the history before the call, read as
\* a sequence, either unchanged or followed by exactly one date; no date
\* is removed, replaced or moved. This holds for each call of a sequence.
C27_HistoryAppendOnly ==
    [][\A p \in Procs :
          (PutFinishes(p) /\ users[call[p].user_id].ticklist = ReadList(p)) =>
              LET r == ReadList(p)
                  s == users'[call[p].user_id].ticklist
              IN  /\ Len(s) >= Len(r)
                  /\ ret'[p].list \in {r, s}
                  /\ \A k \in 1..Len(r) :
                         /\ s[k].iden = r[k].iden
                         /\ \/ History(s[k]) = History(r[k])
                            \/ \E d \in 1..MaxDay :
                                   History(s[k]) = History(r[k]) \o <<d>>]_vars

\* C27 witness: the second of two puts in sequence marked an entry whose
\* history the first had already turned into a list of two dates, and the
\* stored history holds the three dates in the order they were recorded
C27_Witness ==
    /\ PutDone(1) /\ pc[2] = "idle" /\ served = 2
    /\ Clicked(1)
    /\ Iden(1) \in Idens(ReadList(1))
    /\ today = 2
    /\ LET i == PosOf(ReadList(1), Iden(1))
       IN  /\ ReadList(1)[i].date_climbed = DateList(<<1, 1>>)
           /\ users["u1"].ticklist[i].date_climbed = DateList(<<1, 1, 2>>)

\* C28: the completion flag is monotonic under put. Whatever the incoming
\* completion flag and click, every entry that is done in the ticklist a
\* put read is, at the same place and with the same identity, done in the
\* ticklist the put returns, and in the stored ticklist when the put
\* writes.
C28_DoneStaysDone ==
    [][\A p \in Procs :
          PutFinishes(p) =>
              \A k \in 1..Len(ReadList(p)) :
                  ReadList(p)[k].is_done =>
                      /\ Len(ret'[p].list) >= k
                      /\ ret'[p].list[k].iden = ReadList(p)[k].iden
                      /\ ret'[p].list[k].is_done
                      /\ users' # users =>
                             users'[call[p].user_id].ticklist = ret'[p].list]_vars

\* C28 witness: a put with the click and the incoming completion flag
\* false, on an entry that was done, returned the entry still done
C28_Witness ==
    \E p \in Procs :
        /\ PutDone(p)
        /\ call[p].mark_as_done_clicked /\ ~call[p].boulder_data.is_done
        /\ Iden(p) \in Idens(ReadList(p))
        /\ LET i == PosOf(ReadList(p), Iden(p))
           IN  /\ ReadList(p)[i].is_done
               /\ ret[p].list[i].is_done
               /\ users["u1"].ticklist[i].is_done

\* C30: done entries carry a climb date. From a ticklist in which every
\* done entry has a non-empty history, whatever puts and deletes run,
\* every stored entry with completion flag true has a non-empty history.
C30_DoneHasDate ==
    \A u \in UserIds :
        users[u] # None =>
            \A k \in 1..Len(users[u].ticklist) :
                users[u].ticklist[k].is_done =>
                    History(users[u].ticklist[k]) # <<>>


\* ------------------------------------------- properties: inverse traversal
\* C29: next and previous are inverse. Over an unchanged collection and
\* with the same arguments, when a traversal from x returned a boulder y
\* other than x, the opposite traversal from y returns x.
C29_Inverse ==
    nav_pc = "inverted" =>
        ("_id" \in DOMAIN nav_ret /\ nav_ret._id = nav_call.boulder_id)

====
